---- MODULE Spec2Model ----
(***************************************************************************)
(* A model of youtube_transfer/cli.py: the click front end (main, cli,     *)
(* video, audio, info), the YouTubeConverter methods they drive, and the   *)
(* two external collaborators (the yt_dlp extraction library and the       *)
(* ffmpeg binary), whose outcomes are nondeterministic.                    *)
(*                                                                         *)
(* Python strings are sequences of one-character strings, so that slicing, *)
(* strip(), lower(), endswith(), float() and re.match() are computed       *)
(* character by character.                                                 *)
(***************************************************************************)
EXTENDS Integers, Sequences, FiniteSets, TLC

VARIABLES
    argv0,          \* sys.argv as the process received it (never written)
    argv,           \* sys.argv, which main() rewrites in place
    volume,         \* the --volume option: <<>> is None, <<s>> is the string s
    quality,        \* the --quality option of the video command
    pc,             \* the statement the process is at
    cmd,            \* the click command that was dispatched to ("" before)
    url,            \* the url argument click handed to the command
    calls,          \* the calls made to the external collaborators, in order
    errors,         \* the error kinds written to the error stream, in order
    exitCode,       \* the process exit status, -1 while it runs
    probe,          \* the outcome of the ffmpeg probe, "none" until it ran
    ydl_opts,       \* the options bag of the download call
    formats,        \* info['formats'] inside get_available_formats
    idx,            \* the position of its for loop in formats
    video_formats,  \* the 'video' group built so far (format ids)
    audio_formats,  \* the 'audio' group built so far (format ids)
    dl,             \* the download call: "none", "running", "returned", "raised"
    events,         \* the progress events delivered to _progress_hook so far
    uncaught        \* the exception that left the command uncaught, "none" if none

vars == <<argv0, argv, volume, quality, pc, cmd, url, calls, errors, exitCode,
          probe, ydl_opts, formats, idx, video_formats, audio_formats, dl,
          events, uncaught>>

-----------------------------------------------------------------------------
(* Bounds of the model.                                                    *)

\* the longest argument list (after the program name) that is enumerated
MaxArgs == 2
\* the longest --volume string that SpecVolume enumerates
MaxVolLen == 4
\* the longest text after the host part of a url that SpecUrl enumerates
MaxIdLen == 2
\* the longest list of format descriptors the library returns
MaxFormats == 2
\* the most progress events the library delivers during one download
MaxEvents == 2

-----------------------------------------------------------------------------
(* Python str operations.                                                  *)

UpperLetters == <<"A","B","C","D","E","F","G","H","I","J","K","L","M",
                  "N","O","P","Q","R","S","T","U","V","W","X","Y","Z">>
LowerLetters == <<"a","b","c","d","e","f","g","h","i","j","k","l","m",
                  "n","o","p","q","r","s","t","u","v","w","x","y","z">>
Digits == <<"0","1","2","3","4","5","6","7","8","9">>

Range(s) == {s[i] : i \in DOMAIN s}

Whitespace == {" "}

\* str.lower() on one character
LowerChar(c) ==
    IF \E i \in DOMAIN UpperLetters : UpperLetters[i] = c
    THEN LowerLetters[CHOOSE i \in DOMAIN UpperLetters : UpperLetters[i] = c]
    ELSE c

\* str.lower()
Lower(s) == [i \in DOMAIN s |-> LowerChar(s[i])]

\* str.endswith(suffix)
EndsWith(s, suffix) ==
    /\ Len(s) >= Len(suffix)
    /\ SubSeq(s, Len(s) - Len(suffix) + 1, Len(s)) = suffix

\* s[:-n]
DropLast(s, n) == IF Len(s) <= n THEN <<>> ELSE SubSeq(s, 1, Len(s) - n)

\* str.strip(): the longest slice that neither starts nor ends with whitespace
Strip(s) ==
    LET keep == {i \in DOMAIN s : s[i] \notin Whitespace}
    IN  IF keep = {} THEN <<>>
        ELSE SubSeq(s, CHOOSE i \in keep : \A j \in keep : i <= j,
                       CHOOSE i \in keep : \A j \in keep : i >= j)

-----------------------------------------------------------------------------
(* re.match for the regular expressions of validate_youtube_url.  A        *)
(* pattern is a sequence of elements; MatchFrom gives every position the   *)
(* pattern can end at when it starts at pos, so that backtracking over the *)
(* optional groups and the greedy repetitions is covered.                  *)

Lit(s)    == [k |-> "lit", s |-> s]
Opt(p)    == [k |-> "opt", p |-> p]
Plus(cls) == [k |-> "plus", cls |-> cls]
DotStar   == [k |-> "dotstar"]

\* \w for the characters of the model, and the class [\w-]
WordChars == Range(UpperLetters) \cup Range(LowerLetters) \cup Range(Digits) \cup {"_"}
WordOrHyphen == WordChars \cup {"-"}

RECURSIVE MatchFrom(_, _, _)
MatchFrom(pat, s, pos) ==
    IF pat = <<>> THEN {pos}
    ELSE LET e == Head(pat)
             after ==
                 CASE e.k = "lit" ->
                        IF /\ pos + Len(e.s) - 1 <= Len(s)
                           /\ SubSeq(s, pos, pos + Len(e.s) - 1) = e.s
                        THEN {pos + Len(e.s)} ELSE {}
                   [] e.k = "opt" -> MatchFrom(e.p, s, pos) \cup {pos}
                   [] e.k = "plus" ->
                        {q \in (pos + 1)..(Len(s) + 1) :
                            \A i \in pos..(q - 1) : s[i] \in e.cls}
                   [] e.k = "dotstar" ->
                        {q \in pos..(Len(s) + 1) :
                            \A i \in pos..(q - 1) : s[i] # "\n"}
         IN  UNION {MatchFrom(Tail(pat), s, q) : q \in after}

\* re.match(pattern, s): the pattern matches at the start of s (not all of s)
ReMatch(pat, s) == MatchFrom(pat, s, 1) # {}

SchemeHttp  == <<"h","t","t","p">>
SchemeHttps == <<"h","t","t","p","s">>
Www         == <<"w","w","w",".">>
WatchHost   == <<"y","o","u","t","u","b","e",".","c","o","m","/","w","a","t","c","h","?","v","=">>
ShortHost   == <<"y","o","u","t","u",".","b","e","/">>
EmbedHost   == <<"y","o","u","t","u","b","e",".","c","o","m","/","e","m","b","e","d","/">>

\* (?:https?://)?(?:www\.)?
OptionalPrefix ==
    << Opt(<<Lit(SchemeHttp), Opt(<<Lit(<<"s">>)>>), Lit(<<":","/","/">>)>>),
       Opt(<<Lit(Www)>>) >>

\* [\w-]+(?:&.*)?
IdAndRest == << Plus(WordOrHyphen), Opt(<<Lit(<<"&">>), DotStar>>) >>

youtube_patterns ==
    << OptionalPrefix \o <<Lit(WatchHost)>> \o IdAndRest,
       OptionalPrefix \o <<Lit(ShortHost)>> \o IdAndRest,
       OptionalPrefix \o <<Lit(EmbedHost)>> \o IdAndRest >>

\* validate_youtube_url with the embed pattern left out of the list
validate_youtube_url_two_patterns(u) ==
    \E i \in {1, 2} : ReMatch(youtube_patterns[i], u)

validate_youtube_url(u) ==
    \E i \in DOMAIN youtube_patterns : ReMatch(youtube_patterns[i], u)

-----------------------------------------------------------------------------
(* float(s): Python's grammar for a float literal given as a string.  The  *)
(* value of a finite literal is kept exactly, as neg, mant and exp with    *)
(* value (-1)^neg * mant * 10^exp and mant free of trailing zeros, so two  *)
(* literals give the same record exactly when they denote the same number  *)
(* and the same sign (-0.0 is not 0.0).                                    *)

IsDigit(c) == c \in Range(Digits)
DigitVal(c) == (CHOOSE i \in DOMAIN Digits : Digits[i] = c) - 1

\* digit (["_"] digit)*
IsDigitPart(d) ==
    /\ d # <<>>
    /\ \A i \in DOMAIN d : IsDigit(d[i]) \/ d[i] = "_"
    /\ d[1] # "_"
    /\ d[Len(d)] # "_"
    /\ \A i \in 1..(Len(d) - 1) : ~(d[i] = "_" /\ d[i + 1] = "_")

RECURSIVE DigitsValue(_)
DigitsValue(d) ==
    IF d = <<>> THEN 0
    ELSE LET c == d[Len(d)]
             rest == SubSeq(d, 1, Len(d) - 1)
         IN  IF c = "_" THEN DigitsValue(rest)
             ELSE DigitsValue(rest) * 10 + DigitVal(c)

CountDigits(d) == Cardinality({i \in DOMAIN d : IsDigit(d[i])})

RECURSIVE Pow10(_)
Pow10(n) == IF n <= 0 THEN 1 ELSE 10 * Pow10(n - 1)

FloatError == [ok |-> FALSE, kind |-> "ValueError", neg |-> FALSE, mant |-> 0, exp |-> 0]
FloatOf(kind, neg, mant, exp) == [ok |-> TRUE, kind |-> kind, neg |-> neg, mant |-> mant, exp |-> exp]

RECURSIVE Normal(_, _, _)
Normal(neg, mant, exp) ==
    IF mant = 0 THEN FloatOf("finite", neg, 0, 0)
    ELSE IF mant % 10 = 0 THEN Normal(neg, mant \div 10, exp + 1)
    ELSE FloatOf("finite", neg, mant, exp)

\* the part before the exponent: digitpart ["." [digitpart]] | "." digitpart
IsPointFloat(m) ==
    LET dots == {i \in DOMAIN m : m[i] = "."}
    IN  IF dots = {} THEN IsDigitPart(m)
        ELSE /\ Cardinality(dots) = 1
             /\ LET d == CHOOSE i \in dots : TRUE
                    ip == SubSeq(m, 1, d - 1)
                    fp == SubSeq(m, d + 1, Len(m))
                IN  /\ ip = <<>> \/ IsDigitPart(ip)
                    /\ fp = <<>> \/ IsDigitPart(fp)
                    /\ ~(ip = <<>> /\ fp = <<>>)

\* the exponent after "e" or "E": ["+" | "-"] digitpart
IsExponent(e) ==
    /\ e # <<>>
    /\ IsDigitPart(IF e[1] \in {"+", "-"} THEN Tail(e) ELSE e)

ExponentValue(e) ==
    IF e[1] = "-" THEN 0 - DigitsValue(Tail(e))
    ELSE IF e[1] = "+" THEN DigitsValue(Tail(e))
    ELSE DigitsValue(e)

\* an unsigned literal
UnsignedFloat(neg, b) ==
    LET marks == {i \in DOMAIN b : b[i] \in {"e", "E"}}
        special == Lower(b)
    IN  IF special \in {<<"i","n","f">>, <<"i","n","f","i","n","i","t","y">>}
        THEN FloatOf("inf", neg, 0, 0)
        ELSE IF special = <<"n","a","n">> THEN FloatOf("nan", FALSE, 0, 0)
        ELSE IF Cardinality(marks) > 1 THEN FloatError
        ELSE LET m == IF marks = {} THEN b
                      ELSE SubSeq(b, 1, (CHOOSE i \in marks : TRUE) - 1)
                 e == IF marks = {} THEN <<>>
                      ELSE SubSeq(b, (CHOOSE i \in marks : TRUE) + 1, Len(b))
             IN  IF ~IsPointFloat(m) \/ (marks # {} /\ ~IsExponent(e))
                 THEN FloatError
                 ELSE LET dots == {i \in DOMAIN m : m[i] = "."}
                          d == IF dots = {} THEN Len(m) + 1 ELSE CHOOSE i \in dots : TRUE
                          ip == SubSeq(m, 1, d - 1)
                          fp == SubSeq(m, d + 1, Len(m))
                          x == IF marks = {} THEN 0 ELSE ExponentValue(e)
                      IN  Normal(neg,
                                 DigitsValue(ip) * Pow10(CountDigits(fp)) + DigitsValue(fp),
                                 x - CountDigits(fp))

\* float(s): surrounding whitespace is ignored, then an optional sign
PyFloat(s) ==
    LET t == Strip(s)
    IN  IF t = <<>> THEN FloatError
        ELSE IF t[1] \in {"+", "-"} THEN UnsignedFloat(t[1] = "-", Tail(t))
        ELSE UnsignedFloat(FALSE, t)

-----------------------------------------------------------------------------
(* The volume expression of download_audio.  The f-string result is kept   *)
(* as its parts: the float that is formatted (val, divided by div when div *)
(* is 100: the IEEE quotient pct/100.0) and the unit that follows it.      *)

NoExpr == [ok |-> FALSE, val |-> FloatError, div |-> 1, unit |-> <<>>]
VolumeExpr(val, div, unit) ==
    IF val.ok THEN [ok |-> TRUE, val |-> val, div |-> div, unit |-> unit]
    ELSE NoExpr      \* float() raised ValueError

\* the same body with the suffixes compared without lower()
volume_filter_case_sensitive(vol) ==
    LET v == Strip(vol)
    IN  IF EndsWith(v, <<"d","b">>)
        THEN VolumeExpr(PyFloat(DropLast(v, 2)), 1, <<"d","B">>)
        ELSE IF EndsWith(v, <<"%">>)
        THEN VolumeExpr(PyFloat(DropLast(v, 1)), 100, <<>>)
        ELSE IF EndsWith(v, <<"x">>)
        THEN VolumeExpr(PyFloat(DropLast(v, 1)), 1, <<>>)
        ELSE VolumeExpr(PyFloat(v), 1, <<>>)

\* download_audio, the body of "if volume is not None"
volume_filter(vol) ==
    LET v == Strip(vol)
    IN  IF EndsWith(Lower(v), <<"d","b">>)
        THEN VolumeExpr(PyFloat(DropLast(v, 2)), 1, <<"d","B">>)
        ELSE IF EndsWith(v, <<"%">>)
        THEN VolumeExpr(PyFloat(DropLast(v, 1)), 100, <<>>)
        ELSE IF EndsWith(Lower(v), <<"x">>)
        THEN VolumeExpr(PyFloat(DropLast(v, 1)), 1, <<>>)
        ELSE VolumeExpr(PyFloat(v), 1, <<>>)

-----------------------------------------------------------------------------
(* The other pure parts of the converter and of the front end.             *)

\* _get_video_format_selector
_get_video_format_selector(q) ==
    CASE q = "best"  -> "best[ext=mp4]/best"
      [] q = "1080p" -> "best[height<=1080][ext=mp4]/best[height<=1080]"
      [] q = "720p"  -> "best[height<=720][ext=mp4]/best[height<=720]"
      [] q = "480p"  -> "best[height<=480][ext=mp4]/best[height<=480]"
      [] q = "360p"  -> "best[height<=360][ext=mp4]/best[height<=360]"
      [] q = "worst" -> "worst[ext=mp4]/worst"
      [] OTHER       -> "best[ext=mp4]/best"

\* A dict entry is <<>> when the key is missing and <<value>> when it is
\* there, so dict.get(key) is the entry itself with <<>> standing for None.
Missing == <<>>
CodecNone == <<"none">>

\* the loop body with the audio codec alone tested first
FormatGroup_audio_first(fmt) ==
    IF fmt.acodec # CodecNone THEN "audio"
    ELSE IF fmt.vcodec # CodecNone THEN "video"
    ELSE ""

\* get_available_formats, the body of its for loop: the group fmt is
\* appended to, "" when it is appended to neither
FormatGroup(fmt) ==
    IF fmt.vcodec # CodecNone /\ fmt.acodec # CodecNone THEN "video"
    ELSE IF fmt.acodec # CodecNone THEN "audio"
    ELSE ""

\* _progress_hook(d): what the call does, or the exception it raises.
\* d.total is "absent" when d has no 'total_bytes' key, "None" when the key
\* holds None and "int" when it holds d.total_bytes; d.downloaded likewise.
_progress_hook(d) ==
    IF d.status = "downloading"
    THEN IF d.total # "absent" /\ d.total # "None" /\ d.total_bytes # 0
         THEN IF d.downloaded = "absent" THEN "KeyError"
              ELSE IF d.downloaded = "None" THEN "TypeError"
              ELSE "percent"
         ELSE "nothing"
    ELSE IF d.status = "finished" THEN "finished"
    ELSE "nothing"

Prog  == <<"c","l","i",".","p","y">>
Video == <<"v","i","d","e","o">>
Audio == <<"a","u","d","i","o">>
Info  == <<"i","n","f","o">>
Subcommands == {Video, Audio, Info}

\* main with sys.argv.append('audio') in place of sys.argv.insert(1, 'audio')
main_argv_appends(a) ==
    IF Len(a) > 1 /\ a[2] \in Subcommands THEN a
    ELSE IF Len(a) > 1 THEN Append(a, Audio)
    ELSE a

\* main: sys.argv as cli() is called with it
main_argv(a) ==
    IF Len(a) > 1 /\ a[2] \in Subcommands THEN a
    ELSE IF Len(a) > 1 THEN <<a[1], Audio>> \o Tail(a)
    ELSE a

\* _check_ffmpeg returning True whenever subprocess.run returns
_check_ffmpeg_ignores_returncode(outcome) ==
    CASE outcome = "returncode_0"       -> "True"
      [] outcome = "returncode_1"       -> "True"
      [] outcome = "FileNotFoundError"  -> "False"
      [] outcome = "TimeoutExpired"     -> "False"
      [] OTHER                          -> outcome

\* _check_ffmpeg: its result for each outcome of subprocess.run; an
\* exception its except clause does not name leaves it
_check_ffmpeg(outcome) ==
    CASE outcome = "returncode_0"       -> "True"
      [] outcome = "returncode_1"       -> "False"
      [] outcome = "FileNotFoundError"  -> "False"
      [] outcome = "TimeoutExpired"     -> "False"
      [] OTHER                          -> outcome

\* the commands without their "else: sys.exit(1)"
ExitStatus_always_zero(success) == 0

\* video and audio: "if success: ... else: sys.exit(1)"
ExitStatus(success) == IF success THEN 0 ELSE 1

-----------------------------------------------------------------------------
(* The inputs that are enumerated.                                         *)

UrlShort == <<"y","o","u","t","u",".","b","e","/","a">>
UrlWatch == <<"h","t","t","p","s",":","/","/","w","w","w",".","y","o","u","t","u","b","e",".","c","o","m","/","w","a","t","c","h","?","v","=","a">>
UrlOther == <<"x",".","c","o","m","/","a">>
UrlSamples == {UrlShort, UrlWatch, UrlOther}

\* the command-line arguments: subcommand keywords and urls, in any order
ArgTokens == Subcommands \cup UrlSamples

RECURSIVE SeqsUpTo(_, _)
SeqsUpTo(S, n) ==
    IF n = 0 THEN {<<>>}
    ELSE LET shorter == SeqsUpTo(S, n - 1)
         IN  shorter \cup {Append(s, x) : s \in {r \in shorter : Len(r) = n - 1}, x \in S}

ArgLists == SeqsUpTo(ArgTokens, MaxArgs)

\* --volume: not given, or one of these strings
VolumeSamples == {<<"1","5","0","%">>, <<"+","6","d","B">>, <<"0",".","8","x">>, <<"2">>, <<"a","b","c","d","B">>}
VolumeOptions == {<<>>} \cup {<<v>> : v \in VolumeSamples}

\* --quality of the video command, a click.Choice
Qualities == {"best", "1080p", "720p", "480p", "360p", "worst"}

\* what subprocess.run(['ffmpeg', '-version'], timeout=5) can do
ProbeOutcomes == {"returncode_0", "returncode_1", "FileNotFoundError",
                  "TimeoutExpired", "PermissionError"}

\* the format descriptors the library returns: each codec key is missing,
\* 'none' or a codec name; format_id is the position in the list
CodecEntries == {Missing, CodecNone, <<"codec">>}
Descriptors(i) == {[format_id |-> i, vcodec |-> v, acodec |-> a] :
                       v \in CodecEntries, a \in CodecEntries}
RECURSIVE FormatListsOfLen(_)
FormatListsOfLen(n) ==
    IF n = 0 THEN {<<>>}
    ELSE {Append(l, f) : l \in FormatListsOfLen(n - 1), f \in Descriptors(n)}
FormatLists == UNION {FormatListsOfLen(n) : n \in 0..MaxFormats}

\* the status dicts the library hands to a progress hook
ProgressDicts ==
    {d \in [status : {"downloading", "finished"},
            total : {"absent", "None", "int"}, total_bytes : {0, 100},
            downloaded : {"absent", "int"}, downloaded_bytes : {0, 50}] :
        /\ d.total = "int" \/ d.total_bytes = 0
        /\ d.downloaded = "int" \/ d.downloaded_bytes = 0}

NoOpts == [format |-> "", extract_audio |-> FALSE, filter |-> NoExpr]

-----------------------------------------------------------------------------
(* The process.                                                            *)

Init ==
    /\ argv0 \in {<<Prog>> \o args : args \in ArgLists}
    /\ argv = argv0
    /\ volume = <<>>
    /\ quality = ""
    /\ pc = "main"
    /\ cmd = ""
    /\ url = <<>>
    /\ calls = <<>>
    /\ errors = <<>>
    /\ exitCode = -1
    /\ probe = "none"
    /\ ydl_opts = NoOpts
    /\ formats = <<>>
    /\ idx = 0
    /\ video_formats = <<>>
    /\ audio_formats = <<>>
    /\ dl = "none"
    /\ events = <<>>
    /\ uncaught = "none"

\* main(): the legacy rewrite of sys.argv, then cli()
Main ==
    /\ pc = "main"
    /\ argv' = main_argv(argv)
    /\ pc' = "cli"
    /\ UNCHANGED <<argv0, volume, quality, cmd, url, calls, errors, exitCode, probe,
                   ydl_opts, formats, idx, video_formats, audio_formats, dl, events,
                   uncaught>>

\* cli() with no argument: click prints the help of the group; its exit
\* status is 0 or 2 depending on the click release
CliHelp ==
    /\ pc = "cli"
    /\ Len(argv) = 1
    /\ pc' = "exit"
    /\ exitCode' \in {0, 2}
    /\ UNCHANGED <<argv0, argv, volume, quality, cmd, url, calls, errors, probe,
                   ydl_opts, formats, idx, video_formats, audio_formats, dl, events,
                   uncaught>>

\* cli(): no such command, or not exactly the one required url argument:
\* click reports the usage error and exits with status 2
CliUsageError ==
    /\ pc = "cli"
    /\ Len(argv) > 1
    /\ argv[2] \notin Subcommands \/ Len(argv) # 3
    /\ pc' = "exit"
    /\ exitCode' = 2
    /\ errors' = Append(errors, "UsageError")
    /\ UNCHANGED <<argv0, argv, volume, quality, cmd, url, calls, probe,
                   ydl_opts, formats, idx, video_formats, audio_formats, dl, events,
                   uncaught>>

\* cli() dispatches to video(url, output_dir, quality)
CliVideo ==
    /\ pc = "cli"
    /\ Len(argv) = 3
    /\ argv[2] = Video
    /\ cmd' = "video"
    /\ url' = argv[3]
    /\ quality' \in Qualities
    /\ pc' = "video"
    /\ UNCHANGED <<argv0, argv, volume, calls, errors, exitCode, probe,
                   ydl_opts, formats, idx, video_formats, audio_formats, dl, events,
                   uncaught>>

\* cli() dispatches to audio(url, output_dir, quality, volume)
CliAudio ==
    /\ pc = "cli"
    /\ Len(argv) = 3
    /\ argv[2] = Audio
    /\ cmd' = "audio"
    /\ url' = argv[3]
    /\ quality' = "192"
    /\ volume' \in VolumeOptions
    /\ pc' = "audio"
    /\ UNCHANGED <<argv0, argv, calls, errors, exitCode, probe,
                   ydl_opts, formats, idx, video_formats, audio_formats, dl, events,
                   uncaught>>

\* cli() dispatches to info(url)
CliInfo ==
    /\ pc = "cli"
    /\ Len(argv) = 3
    /\ argv[2] = Info
    /\ cmd' = "info"
    /\ url' = argv[3]
    /\ pc' = "info"
    /\ UNCHANGED <<argv0, argv, volume, quality, calls, errors, exitCode, probe,
                   ydl_opts, formats, idx, video_formats, audio_formats, dl, events,
                   uncaught>>

\* YouTubeConverter.__init__: output_dir.mkdir(exist_ok=True), whose OSError
\* nothing catches (the traceback ends the process with status 1)
New(next) ==
    /\ calls' = Append(calls, "mkdir")
    /\ \/ /\ pc' = next
          /\ UNCHANGED <<exitCode, uncaught>>
       \/ /\ pc' = "exit"
          /\ exitCode' = 1
          /\ uncaught' = "OSError"

\* get_video_info: one metadata query; any exception (or a result that is
\* not a dict) is reported and gives None, otherwise a dict
get_video_info(next) ==
    /\ calls' = Append(calls, "extract_info")
    /\ \/ /\ pc' = next
          /\ UNCHANGED <<errors, exitCode>>
       \/ /\ errors' = Append(errors, "MetadataFetchFailed")
          /\ pc' = "exit"
          /\ exitCode' = ExitStatus(FALSE)

\* video(): the banner and YouTubeConverter(output_dir)
VideoNew ==
    /\ pc = "video"
    /\ New("dv_validate")
    /\ UNCHANGED <<argv0, argv, volume, quality, cmd, url, errors, probe,
                   ydl_opts, formats, idx, video_formats, audio_formats, dl, events>>

\* the url check of download_video without its "return False"
DownloadVideoValidate_no_return ==
    /\ pc = "dv_validate"
    /\ errors' = IF validate_youtube_url(url) THEN errors
                 ELSE Append(errors, "InvalidUrl")
    /\ pc' = "dv_info"
    /\ UNCHANGED <<argv0, argv, volume, quality, cmd, url, calls, exitCode, probe,
                   ydl_opts, formats, idx, video_formats, audio_formats, dl, events,
                   uncaught>>

\* download_video: the url check; False makes video() call sys.exit(1)
DownloadVideoValidate ==
    /\ pc = "dv_validate"
    /\ IF validate_youtube_url(url)
       THEN /\ pc' = "dv_info"
            /\ UNCHANGED <<errors, exitCode>>
       ELSE /\ errors' = Append(errors, "InvalidUrl")
            /\ pc' = "exit"
            /\ exitCode' = ExitStatus(FALSE)
    /\ UNCHANGED <<argv0, argv, volume, quality, cmd, url, calls, probe,
                   ydl_opts, formats, idx, video_formats, audio_formats, dl, events,
                   uncaught>>

\* download_video: get_video_info, then the options of the download
DownloadVideoInfo ==
    /\ pc = "dv_info"
    /\ get_video_info("dv_download")
    /\ ydl_opts' = IF pc' = "dv_download"
                   THEN [format |-> _get_video_format_selector(quality),
                         extract_audio |-> FALSE, filter |-> NoExpr]
                   ELSE ydl_opts
    /\ UNCHANGED <<argv0, argv, volume, quality, cmd, url, probe,
                   formats, idx, video_formats, audio_formats, dl, events, uncaught>>

\* download_video: ydl.download([url]) is entered
DownloadVideoCall ==
    /\ pc = "dv_download"
    /\ calls' = Append(calls, "download")
    /\ dl' = "running"
    /\ pc' = "dv_downloading"
    /\ UNCHANGED <<argv0, argv, volume, quality, cmd, url, errors, exitCode, probe,
                   ydl_opts, formats, idx, video_formats, audio_formats, events,
                   uncaught>>

\* the library calls _progress_hook(d) from inside ydl.download; an
\* exception of the hook leaves ydl.download
ProgressHook ==
    /\ pc \in {"dv_downloading", "da_downloading"}
    /\ dl = "running"
    /\ Len(events) < MaxEvents
    /\ \E d \in ProgressDicts :
          LET r == _progress_hook(d)
          IN  IF r \in {"KeyError", "TypeError"}
              THEN /\ dl' = r
                   /\ UNCHANGED events
              ELSE /\ events' = Append(events, r)
                   /\ UNCHANGED dl
    /\ UNCHANGED <<argv0, argv, volume, quality, cmd, url, calls, errors, exitCode,
                   probe, ydl_opts, formats, idx, video_formats, audio_formats,
                   pc, uncaught>>

\* ydl.download returns, or raises an error of its own
LibraryDownloadEnds ==
    /\ pc \in {"dv_downloading", "da_downloading"}
    /\ dl = "running"
    /\ dl' \in {"returned", "DownloadError"}
    /\ UNCHANGED <<argv0, argv, volume, quality, cmd, url, calls, errors, exitCode,
                   probe, ydl_opts, formats, idx, video_formats, audio_formats,
                   pc, events, uncaught>>

\* download_video after ydl.download: True, or the except clause and
\* False; then the exit status of video()
DownloadVideoDone ==
    /\ pc = "dv_downloading"
    /\ dl # "running"
    /\ IF dl = "returned"
       THEN /\ exitCode' = ExitStatus(TRUE)
            /\ UNCHANGED errors
       ELSE /\ errors' = Append(errors, "DownloadFailed")
            /\ exitCode' = ExitStatus(FALSE)
    /\ pc' = "exit"
    /\ UNCHANGED <<argv0, argv, volume, quality, cmd, url, calls, probe,
                   ydl_opts, formats, idx, video_formats, audio_formats, dl, events,
                   uncaught>>

\* audio(): the banner and the ffmpeg probe; without ffmpeg, sys.exit(1)
AudioProbe ==
    /\ pc = "audio"
    /\ calls' = Append(calls, "ffmpeg")
    /\ \E outcome \in ProbeOutcomes :
          /\ probe' = outcome
          /\ LET r == _check_ffmpeg(outcome)
             IN  IF r = "True"
                 THEN /\ pc' = "audio_new"
                      /\ UNCHANGED <<errors, exitCode, uncaught>>
                 ELSE IF r = "False"
                 THEN /\ errors' = Append(errors, "MissingExternalTool")
                      /\ pc' = "exit"
                      /\ exitCode' = 1
                      /\ UNCHANGED uncaught
                 ELSE /\ uncaught' = r
                      /\ pc' = "exit"
                      /\ exitCode' = 1
                      /\ UNCHANGED errors
    /\ UNCHANGED <<argv0, argv, volume, quality, cmd, url,
                   ydl_opts, formats, idx, video_formats, audio_formats, dl, events>>

\* audio(): YouTubeConverter(output_dir)
AudioNew ==
    /\ pc = "audio_new"
    /\ New("da_validate")
    /\ UNCHANGED <<argv0, argv, volume, quality, cmd, url, errors, probe,
                   ydl_opts, formats, idx, video_formats, audio_formats, dl, events>>

\* download_audio: the url check; False makes audio() call sys.exit(1)
DownloadAudioValidate ==
    /\ pc = "da_validate"
    /\ IF validate_youtube_url(url)
       THEN /\ pc' = "da_info"
            /\ UNCHANGED <<errors, exitCode>>
       ELSE /\ errors' = Append(errors, "InvalidUrl")
            /\ pc' = "exit"
            /\ exitCode' = ExitStatus(FALSE)
    /\ UNCHANGED <<argv0, argv, volume, quality, cmd, url, calls, probe,
                   ydl_opts, formats, idx, video_formats, audio_formats, dl, events,
                   uncaught>>

\* download_audio: get_video_info, then the options of the download
DownloadAudioInfo ==
    /\ pc = "da_info"
    /\ get_video_info("da_volume")
    /\ ydl_opts' = IF pc' = "da_volume"
                   THEN [format |-> "bestaudio/best", extract_audio |-> TRUE,
                         filter |-> NoExpr]
                   ELSE ydl_opts
    /\ UNCHANGED <<argv0, argv, volume, quality, cmd, url, probe,
                   formats, idx, video_formats, audio_formats, dl, events, uncaught>>

\* download_audio: "if volume is not None": the filter is added to the
\* options, or the format is reported invalid and False is returned
DownloadAudioVolume ==
    /\ pc = "da_volume"
    /\ IF volume = <<>>
       THEN /\ pc' = "da_download"
            /\ UNCHANGED <<ydl_opts, errors, exitCode>>
       ELSE LET expr == volume_filter(volume[1])
            IN  IF expr.ok
                THEN /\ ydl_opts' = [ydl_opts EXCEPT !.filter = expr]
                     /\ pc' = "da_download"
                     /\ UNCHANGED <<errors, exitCode>>
                ELSE /\ errors' = Append(errors, "InvalidVolumeExpression")
                     /\ pc' = "exit"
                     /\ exitCode' = ExitStatus(FALSE)
                     /\ UNCHANGED ydl_opts
    /\ UNCHANGED <<argv0, argv, volume, quality, cmd, url, calls, probe,
                   formats, idx, video_formats, audio_formats, dl, events, uncaught>>

\* download_audio: ydl.download([url]) is entered
DownloadAudioCall ==
    /\ pc = "da_download"
    /\ calls' = Append(calls, "download")
    /\ dl' = "running"
    /\ pc' = "da_downloading"
    /\ UNCHANGED <<argv0, argv, volume, quality, cmd, url, errors, exitCode, probe,
                   ydl_opts, formats, idx, video_formats, audio_formats, events,
                   uncaught>>

\* download_audio after ydl.download: True, or the except clause and
\* False; then the exit status of audio()
DownloadAudioDone ==
    /\ pc = "da_downloading"
    /\ dl # "running"
    /\ IF dl = "returned"
       THEN /\ exitCode' = ExitStatus(TRUE)
            /\ UNCHANGED errors
       ELSE /\ errors' = Append(errors, "DownloadFailed")
            /\ exitCode' = ExitStatus(FALSE)
    /\ pc' = "exit"
    /\ UNCHANGED <<argv0, argv, volume, quality, cmd, url, calls, probe,
                   ydl_opts, formats, idx, video_formats, audio_formats, dl, events,
                   uncaught>>

\* info(): YouTubeConverter()
InfoNew ==
    /\ pc = "info"
    /\ New("info_validate")
    /\ UNCHANGED <<argv0, argv, volume, quality, cmd, url, errors, probe,
                   ydl_opts, formats, idx, video_formats, audio_formats, dl, events>>

\* info(): the url check, sys.exit(1) when it fails
InfoValidate ==
    /\ pc = "info_validate"
    /\ IF validate_youtube_url(url)
       THEN /\ pc' = "info_fetch"
            /\ UNCHANGED <<errors, exitCode>>
       ELSE /\ errors' = Append(errors, "InvalidUrl")
            /\ pc' = "exit"
            /\ exitCode' = 1
    /\ UNCHANGED <<argv0, argv, volume, quality, cmd, url, calls, probe,
                   ydl_opts, formats, idx, video_formats, audio_formats, dl, events,
                   uncaught>>

\* info(): get_video_info, sys.exit(1) when it gives None, else the title,
\* the uploader and the duration are printed
InfoFetch ==
    /\ pc = "info_fetch"
    /\ get_video_info("gaf_query")
    /\ UNCHANGED <<argv0, argv, volume, quality, cmd, url, probe, ydl_opts,
                   formats, idx, video_formats, audio_formats, dl, events, uncaught>>

\* get_available_formats: the query; an exception is reported and the two
\* empty groups are returned to info()
GetFormatsQuery ==
    /\ pc = "gaf_query"
    /\ calls' = Append(calls, "extract_info")
    /\ video_formats' = <<>>
    /\ audio_formats' = <<>>
    /\ \/ /\ formats' \in FormatLists
          /\ idx' = 1
          /\ pc' = "gaf_loop"
          /\ UNCHANGED errors
       \/ /\ errors' = Append(errors, "FormatFetchFailed")
          /\ pc' = "info_print"
          /\ UNCHANGED <<formats, idx>>
    /\ UNCHANGED <<argv0, argv, volume, quality, cmd, url, exitCode, probe,
                   ydl_opts, dl, events, uncaught>>

\* get_available_formats: one turn of "for fmt in formats"
GetFormatsLoop ==
    /\ pc = "gaf_loop"
    /\ idx <= Len(formats)
    /\ LET fmt == formats[idx]
           group == FormatGroup(fmt)
       IN  /\ video_formats' = IF group = "video"
                               THEN Append(video_formats, fmt.format_id)
                               ELSE video_formats
           /\ audio_formats' = IF group = "audio"
                               THEN Append(audio_formats, fmt.format_id)
                               ELSE audio_formats
    /\ idx' = idx + 1
    /\ UNCHANGED <<argv0, argv, volume, quality, pc, cmd, url, calls, errors, exitCode,
                   probe, ydl_opts, formats, dl, events, uncaught>>

\* get_available_formats returns the two groups
GetFormatsReturn ==
    /\ pc = "gaf_loop"
    /\ idx > Len(formats)
    /\ pc' = "info_print"
    /\ UNCHANGED <<argv0, argv, volume, quality, cmd, url, calls, errors, exitCode,
                   probe, ydl_opts, formats, idx, video_formats, audio_formats, dl,
                   events, uncaught>>

\* info(): the first formats of each group are printed and info() returns,
\* so the process ends with status 0
InfoPrint ==
    /\ pc = "info_print"
    /\ pc' = "exit"
    /\ exitCode' = 0
    /\ UNCHANGED <<argv0, argv, volume, quality, cmd, url, calls, errors,
                   probe, ydl_opts, formats, idx, video_formats, audio_formats, dl,
                   events, uncaught>>

Next ==
    \/ Main
    \/ CliHelp
    \/ CliUsageError
    \/ CliVideo
    \/ CliAudio
    \/ CliInfo
    \/ VideoNew
    \/ DownloadVideoValidate
    \/ DownloadVideoInfo
    \/ DownloadVideoCall
    \/ ProgressHook
    \/ LibraryDownloadEnds
    \/ DownloadVideoDone
    \/ AudioProbe
    \/ AudioNew
    \/ DownloadAudioValidate
    \/ DownloadAudioInfo
    \/ DownloadAudioVolume
    \/ DownloadAudioCall
    \/ DownloadAudioDone
    \/ InfoNew
    \/ InfoValidate
    \/ InfoFetch
    \/ GetFormatsQuery
    \/ GetFormatsLoop
    \/ GetFormatsReturn
    \/ InfoPrint

Spec == Init /\ [][Next]_vars

-----------------------------------------------------------------------------
(* validate_youtube_url on every url of a bounded set: the process is at   *)
(* the url check of one of the three commands, with a url put together     *)
(* from right and wrong pieces.                                            *)

UrlGarbage == {<<>>, <<"x">>}
UrlSchemes == {<<>>, SchemeHttp \o <<":","/","/">>, SchemeHttps \o <<":","/","/">>,
               <<"f","t","p",":","/","/">>}
UrlWwws    == {<<>>, Www}
UrlHosts   == {WatchHost, ShortHost, EmbedHost, <<"y","o","u","t","u","b","e",".","c","o","m","/">>, <<"x",".","c","o","m","/">>, <<>>}
UrlTailChars == {"a", "-", "_", "!", "&"}
UrlTails   == SeqsUpTo(UrlTailChars, MaxIdLen)

BoundedUrls == {g \o s \o w \o h \o r :
                   g \in UrlGarbage, s \in UrlSchemes, w \in UrlWwws,
                   h \in UrlHosts, r \in UrlTails}

InitUrl ==
    /\ url \in BoundedUrls
    /\ cmd \in {"video", "audio", "info"}
    /\ argv0 = <<Prog, CASE cmd = "video" -> Video [] cmd = "audio" -> Audio
                         [] OTHER -> Info, url>>
    /\ argv = argv0
    /\ volume = <<>>
    /\ quality = CASE cmd = "video" -> "best" [] cmd = "audio" -> "192" [] OTHER -> ""
    /\ pc = CASE cmd = "video" -> "dv_validate" [] cmd = "audio" -> "da_validate"
              [] OTHER -> "info_validate"
    /\ calls = IF cmd = "audio" THEN <<"ffmpeg", "mkdir">> ELSE <<"mkdir">>
    /\ errors = <<>>
    /\ exitCode = -1
    /\ probe = IF cmd = "audio" THEN "returncode_0" ELSE "none"
    /\ ydl_opts = NoOpts
    /\ formats = <<>>
    /\ idx = 0
    /\ video_formats = <<>>
    /\ audio_formats = <<>>
    /\ dl = "none"
    /\ events = <<>>
    /\ uncaught = "none"

NextUrl ==
    \/ DownloadVideoValidate
    \/ DownloadAudioValidate
    \/ InfoValidate

SpecUrl == InitUrl /\ [][NextUrl]_vars

-----------------------------------------------------------------------------
(* The volume expression on every string of a bounded set: the process is  *)
(* in download_audio, after get_video_info, with --volume given.           *)

VolumeChars == {"0", "1", ".", "-", "+", " ", "d", "B", "%", "X", "a", "n"}
VolumeStrings == SeqsUpTo(VolumeChars, MaxVolLen) \cup VolumeSamples

InitVolume ==
    /\ volume \in {<<v>> : v \in VolumeStrings}
    /\ argv0 = <<Prog, Audio, UrlShort>>
    /\ argv = argv0
    /\ quality = "192"
    /\ pc = "da_volume"
    /\ cmd = "audio"
    /\ url = UrlShort
    /\ calls = <<"ffmpeg", "mkdir", "extract_info">>
    /\ errors = <<>>
    /\ exitCode = -1
    /\ probe = "returncode_0"
    /\ ydl_opts = [format |-> "bestaudio/best", extract_audio |-> TRUE, filter |-> NoExpr]
    /\ formats = <<>>
    /\ idx = 0
    /\ video_formats = <<>>
    /\ audio_formats = <<>>
    /\ dl = "none"
    /\ events = <<>>
    /\ uncaught = "none"

NextVolume == DownloadAudioVolume

SpecVolume == InitVolume /\ [][NextVolume]_vars

-----------------------------------------------------------------------------
(* The claims.                                                             *)

Reported(e) == \E i \in DOMAIN errors : errors[i] = e
Called(c)   == \E i \in DOMAIN calls : calls[i] = c

\* a call to the extraction library: a metadata or format query, or a download
LibraryCalled == Called("extract_info") \/ Called("download")

\* C1: when the volume expression of the audio command does not parse, the
\* extraction library has not been called at all (no metadata query and no
\* download) when the failure is reported, and is not called afterwards.
C1_InvalidVolumeBeforeLibrary ==
    Reported("InvalidVolumeExpression") => ~LibraryCalled

\* C2: in the audio command the ffmpeg probe is the first call made; when it
\* fails (missing binary, non-zero return code, timeout) the command has
\* ended with status 1 and no call to the extraction library was made.
C2_ProbeFirst ==
    cmd = "audio" =>
        /\ calls # <<>> => calls[1] = "ffmpeg"
        /\ pc # "audio" => probe # "none"
        /\ probe \in {"returncode_1", "FileNotFoundError", "TimeoutExpired"} =>
              /\ pc = "exit"
              /\ exitCode = 1
              /\ calls = <<"ffmpeg">>
              /\ ~LibraryCalled

C2_Witness ==
    /\ cmd = "audio"
    /\ probe = "TimeoutExpired"
    /\ pc = "exit"
    /\ Reported("MissingExternalTool")

\* the statements of a command that come before its url check has run
BeforeUrlCheck == {"video", "dv_validate", "audio", "audio_new", "da_validate",
                   "info", "info_validate"}

\* C3: in video, audio and info the url check comes before every call to the
\* extraction library; for a url validate_youtube_url rejects, no such call is
\* ever made and, once the check has run, the process has ended with status 1.
C3_InvalidUrlNoLibrary ==
    cmd \in {"video", "audio", "info"} =>
        /\ LibraryCalled => pc \notin BeforeUrlCheck
        /\ ~validate_youtube_url(url) =>
              /\ ~LibraryCalled
              /\ pc \notin BeforeUrlCheck =>
                    /\ pc = "exit"
                    /\ exitCode = 1

C3_Witness ==
    /\ cmd = "info"
    /\ url = UrlOther
    /\ pc = "exit"
    /\ Reported("InvalidUrl")

\* C4: when video or audio has ended, the exit status is 0 exactly when the
\* download call returned without raising and 1 otherwise (invalid url, failed
\* metadata query, missing ffmpeg, invalid volume, exception during the
\* download); an exception of the download is caught and reported, and no
\* exception of the library leaves the command.
C4_ExitStatus ==
    pc = "exit" /\ cmd \in {"video", "audio"} =>
        /\ exitCode \in {0, 1}
        /\ exitCode = 0 <=> dl = "returned"
        /\ \A e \in {"InvalidUrl", "MetadataFetchFailed", "MissingExternalTool",
                     "InvalidVolumeExpression", "DownloadFailed"} :
              Reported(e) => exitCode = 1
        /\ dl \in {"DownloadError", "KeyError", "TypeError"} =>
              /\ Reported("DownloadFailed")
              /\ uncaught = "none"
        /\ uncaught \in {"none", "OSError", "PermissionError"}

C4_Witness ==
    /\ pc = "exit"
    /\ cmd = "audio"
    /\ dl = "DownloadError"
    /\ exitCode = 1

\* C5: every error kind is terminal: an invocation that reported an error
\* (FormatFetchFailed of the info command included) ends with a non-zero
\* exit status, never with 0.
C5_ErrorsAreTerminal ==
    pc = "exit" /\ errors # <<>> => exitCode >= 1

\* C6: main leaves sys.argv alone when there is no argument or the first one
\* is video, audio or info; otherwise it puts 'audio' in front of the
\* arguments, all of them kept in their order, and the invocation is the
\* audio command, whose first call is the ffmpeg probe.
C6_LegacyDispatch ==
    LET legacy == Len(argv0) > 1 /\ argv0[2] \notin {Video, Audio, Info}
    IN  /\ pc = "main" => argv = argv0
        /\ pc # "main" /\ legacy =>
              /\ Len(argv) = Len(argv0) + 1
              /\ argv[1] = argv0[1]
              /\ argv[2] = Audio
              /\ \A i \in 2..Len(argv0) : argv[i + 1] = argv0[i]
        /\ pc # "main" /\ ~legacy => argv = argv0
        /\ legacy /\ cmd # "" => cmd = "audio" /\ url = argv0[2]
        /\ legacy /\ calls # <<>> => calls[1] = "ffmpeg"

C6_Witness ==
    /\ argv0 = <<Prog, UrlShort>>
    /\ argv = <<Prog, Audio, UrlShort>>
    /\ calls # <<>>
    /\ pc = "exit"
    /\ exitCode = 0

HasShape(u) ==
    \E s \in {<<>>, <<"h","t","t","p",":","/","/">>, <<"h","t","t","p","s",":","/","/">>} :
    \E w \in {<<>>, <<"w","w","w",".">>} :
    \E h \in {<<"y","o","u","t","u","b","e",".","c","o","m","/","w","a","t","c","h","?","v","=">>, <<"y","o","u","t","u",".","b","e","/">>, <<"y","o","u","t","u","b","e",".","c","o","m","/","e","m","b","e","d","/">>} :
        LET pre == s \o w \o h
        IN  /\ Len(u) > Len(pre)
            /\ SubSeq(u, 1, Len(pre)) = pre
            /\ \E k \in (Len(pre) + 1)..Len(u) :
                  /\ \A i \in (Len(pre) + 1)..k : u[i] \in WordChars \cup {"-"}
                  /\ k = Len(u) \/ u[k + 1] = "&"

\* u starts with a string that has one of the shapes (the match is a prefix match)
StartsWithShape(u) == \E n \in 1..Len(u) : HasShape(SubSeq(u, 1, n))

\* C8: validate_youtube_url accepts every string of the three shapes, with
\* or without scheme and www., and rejects every string that does not match
\* a shape (matching being a prefix match): the empty string, a url of
\* another site, an id that does not start with a word or hyphen character.
C8_UrlShapes ==
    pc \notin {"dv_validate", "da_validate", "info_validate"} =>
        LET accepted == pc \in {"dv_info", "da_info", "info_fetch"} /\ errors = <<>>
            rejected == pc = "exit" /\ exitCode = 1 /\ errors = <<"InvalidUrl">>
        IN  /\ accepted \/ rejected
            /\ HasShape(url) => accepted
            /\ accepted <=> StartsWithShape(url)
            /\ url = <<>> => rejected

C8_Witness ==
    /\ url = <<"h","t","t","p","s",":","/","/">> \o <<"w","w","w",".">> \o <<"y","o","u","t","u","b","e",".","c","o","m","/","e","m","b","e","d","/">> \o <<"a", "-">>
    /\ pc = "info_fetch"

\* the groups the descriptor at position i of formats was put in
GroupsOf(i) ==
    {g \in {"video", "audio"} :
        LET l == IF g = "video" THEN video_formats ELSE audio_formats
        IN  \E k \in DOMAIN l : l[k] = formats[i].format_id}

\* the classification of every descriptor the loop has dealt with, for a
\* given reading of "the codec is absent"
Classified(Absent(_)) ==
    \A i \in 1..(idx - 1) :
        LET f == formats[i]
        IN  /\ Cardinality(GroupsOf(i)) <= 1
            /\ ~Absent(f.vcodec) /\ ~Absent(f.acodec) => GroupsOf(i) = {"video"}
            /\ Absent(f.vcodec) /\ ~Absent(f.acodec) => GroupsOf(i) = {"audio"}
            /\ Absent(f.vcodec) /\ Absent(f.acodec) => GroupsOf(i) = {}

AbsentNoneOrMissing(c) == c \in {CodecNone, Missing}
AbsentNone(c) == c = CodecNone

\* C9 as stated: each descriptor lands in at most one group; both codecs
\* non-absent: only 'video'; video codec absent and audio codec non-absent:
\* only 'audio'; both absent: neither; absent being the value 'none' or a
\* missing codec field.
C9_ClassificationMissingIsAbsent == Classified(AbsentNoneOrMissing)

\* C9 as amended: the same classification with absent being the value 'none'
\* alone, a missing codec field counting as a codec that is there.
C9_Classification == Classified(AbsentNone)

C9_Witness ==
    /\ pc = "info_print"
    /\ Len(formats) = 2
    /\ idx = 3
    /\ formats[1].vcodec = Missing /\ formats[1].acodec = <<"codec">>
    /\ formats[2].vcodec = CodecNone /\ formats[2].acodec = <<"codec">>
    /\ video_formats = <<1>>
    /\ audio_formats = <<2>>

\* C10: _progress_hook raises for no event the library delivers during a
\* download ('downloading' with total_bytes absent, zero or positive and
\* downloaded_bytes there only when known, then 'finished'), so the download
\* is never aborted by it.
C10_HookNeverRaises == dl \notin {"KeyError", "TypeError"}

====
